---- MODULE Spec2Model ----
(***************************************************************************)
(* Model of the ClarityRx demo application (clarity-business-plan/app).    *)
(*                                                                         *)
(*   onboarding/page.tsx : the onboarding form, chooseStarterProduct and   *)
(*                         buildExplanation                                *)
(*   history/page.tsx    : the history page and buildStats, the            *)
(*                         dose-history aggregator                         *)
(*   log-dose/page.tsx   : the dose logging form                           *)
(*   assistant/page.tsx  : the assistant chat                              *)
(*   settings page       : the four-step settings survey                   *)
(*   dummyData.ts        : the seed catalog and the seed history           *)
(*                                                                         *)
(* One page is mounted at a time; a navigation mounts the target page with *)
(* its initial state, and the state of a page that is not mounted is kept  *)
(* at its initial value.                                                   *)
(*                                                                         *)
(* Conventions.                                                            *)
(*  - thcMgPerCapsule is kept in tenths of a milligram (2.5 mg = 25).      *)
(*  - A string built by concatenation is the sequence of its fragments.    *)
(*  - A JavaScript number that is a quotient of integers is the fraction   *)
(*    in lowest terms, [num, den]; two quotients are the same double       *)
(*    exactly when they are the same fraction (sums stay far below 2^53).  *)
(*  - An ISO date string "YYYY-MM-DD" is the triple <<YYYY, MM, DD>>.      *)
(*  - The free-text fields that no computation reads (description, tags,   *)
(*    notes, timeOfDay, thumbs) are left out of the records.               *)
(***************************************************************************)
EXTENDS Integers, Sequences, FiniteSets, TLC

VARIABLES
    products,      \* dummyData.ts: the catalog the pages import
    ageRange,      \* onboarding/page.tsx: useState("")
    primaryGoal,   \* onboarding/page.tsx: useState("")
    experience,    \* onboarding/page.tsx: useState("naive")
    result,        \* onboarding/page.tsx: useState(null)
    entries,       \* history/page.tsx: the argument of buildStats (filtered)
    stats,         \* history/page.tsx: the value buildStats returned
    page,          \* the route of the mounted page
    dosingHistory, \* dummyData.ts: the dose history the history page imports
    productFilter, \* history/page.tsx: useState("all")
    goalFilter,    \* history/page.tsx: useState("all")
    logDose,       \* log-dose/page.tsx: the state of LogDosePage
    assistant,     \* assistant/page.tsx: the state of AssistantPage
    settings,      \* settings page: the state of SettingsPage
    now            \* the last reading of Date.now() since the page was mounted

vars == <<products, ageRange, primaryGoal, experience, result, entries, stats,
          page, dosingHistory, productFilter, goalFilter, logDose, assistant,
          settings, now>>

\* what the onboarding page and a call of buildStats leave alone
appVars == <<page, dosingHistory, productFilter, goalFilter, logDose, assistant,
             settings, now>>

onboardingVars == <<ageRange, primaryGoal, experience, result>>

statsVars == <<entries, stats>>

----
(* JavaScript values *)

\* the value of a missing array element and of a failed Array.prototype.find
Undefined == [undefined |-> TRUE]

\* the initial value of the onboarding result
Null == [null |-> TRUE]

\* a ?? b
Coalesce(a, b) == IF a = Undefined \/ a = Null THEN b ELSE a

\* arr[i], zero-based as in the source
At(arr, i) == IF i >= 0 /\ i < Len(arr) THEN arr[i + 1] ELSE Undefined

RECURSIVE FindFrom(_, _, _)
FindFrom(arr, sku, i) ==
    IF i > Len(arr) THEN Undefined
    ELSE IF arr[i].sku = sku THEN arr[i]
    ELSE FindFrom(arr, sku, i + 1)

\* arr.find((p) => p.sku === sku)
Find(arr, sku) == FindFrom(arr, sku, 1)

Range(s) == {s[i] : i \in 1..Len(s)}

----
(* the enumerations of onboarding/page.tsx and the seed catalogs *)

ageRanges == <<"50-60", "60-70", "70-80">>

goals == <<"sleep", "calm", "relief", "focus">>

experienceLevels == <<"naive", "light", "regular", "heavy">>

\* app/dummyData.ts, the catalog the onboarding page imports
dummyProducts ==
    << [sku |-> "CRX-DR-2.5", name |-> "Deep Rest Micro", thcMgPerCapsule |-> 25,
        intendedEffect |-> "sleep", persona |-> "very_sensitive_over_65_sleep"],
       [sku |-> "CRX-DR-5", name |-> "Deep Rest", thcMgPerCapsule |-> 50,
        intendedEffect |-> "sleep", persona |-> "naive_over_60_sleep"],
       [sku |-> "CRX-CL-2.5", name |-> "Calm Clarity", thcMgPerCapsule |-> 25,
        intendedEffect |-> "calm", persona |-> "daytime_anxiety_over_55"],
       [sku |-> "CRX-FC-2.5", name |-> "Focus Crisp", thcMgPerCapsule |-> 25,
        intendedEffect |-> "focus", persona |-> "retired_professional_daytime_focus"] >>

\* the six-product variant of the seed catalog
variantProducts ==
    << [sku |-> "CRX-DR-2.5", name |-> "Deep Rest Micro", thcMgPerCapsule |-> 25,
        intendedEffect |-> "sleep", persona |-> "sensitive_sleeper_first_time"],
       [sku |-> "CRX-DR-5", name |-> "Deep Rest", thcMgPerCapsule |-> 50,
        intendedEffect |-> "sleep", persona |-> "cautious_sleeper_evening_routine"],
       [sku |-> "CRX-DR-10", name |-> "Deep Rest Plus", thcMgPerCapsule |-> 100,
        intendedEffect |-> "sleep", persona |-> "experienced_sleeper_high_tolerance"],
       [sku |-> "CRX-CL-2.5", name |-> "Calm Clarity", thcMgPerCapsule |-> 25,
        intendedEffect |-> "calm", persona |-> "daytime_anxiety_soft_landing"],
       [sku |-> "CRX-FC-2.5", name |-> "Focus Crisp", thcMgPerCapsule |-> 25,
        intendedEffect |-> "focus", persona |-> "knowledge_worker_deep_work"],
       [sku |-> "CRX-RL-5", name |-> "Gentle Relief", thcMgPerCapsule |-> 50,
        intendedEffect |-> "relief", persona |-> "joint_pain_walks_and_hobbies"] >>

\* the sub-list of arr that keeps the positions in keep, in order
RECURSIVE SubList(_, _, _)
SubList(arr, keep, i) ==
    IF i > Len(arr) THEN <<>>
    ELSE (IF i \in keep THEN <<arr[i]>> ELSE <<>>) \o SubList(arr, keep, i + 1)

\* the catalogs considered: the two seed catalogs and every non-empty catalog
\* obtained from the six-product one by removing products
Catalogs ==
    {dummyProducts} \cup
    {SubList(variantProducts, keep, 1) :
        keep \in (SUBSET (1..Len(variantProducts))) \ {{}}}

\* variant: the third entry is a dose of a product the catalog does not hold
dummyHistory_unknownSku ==
    << [id |-> 30, date |-> <<2026, 2, 2>>, productSku |-> "CRX-DR-5",
        productName |-> "Deep Rest", desiredOutcome |-> "sleep", quickRating |-> 5],
       [id |-> 29, date |-> <<2026, 2, 1>>, productSku |-> "CRX-DR-5",
        productName |-> "Deep Rest", desiredOutcome |-> "sleep", quickRating |-> 4],
       [id |-> 28, date |-> <<2026, 1, 31>>, productSku |-> "CRX-RL-5",
        productName |-> "Gentle Relief", desiredOutcome |-> "relief", quickRating |-> 3],
       [id |-> 27, date |-> <<2026, 1, 30>>, productSku |-> "CRX-DR-2.5",
        productName |-> "Deep Rest Micro", desiredOutcome |-> "sleep", quickRating |-> 4],
       [id |-> 26, date |-> <<2026, 1, 29>>, productSku |-> "CRX-FC-2.5",
        productName |-> "Focus Crisp", desiredOutcome |-> "focus", quickRating |-> 4] >>

\* app/dummyData.ts, the dose history the history page imports
dummyHistory ==
    << [id |-> 30, date |-> <<2026, 2, 2>>, productSku |-> "CRX-DR-5",
        productName |-> "Deep Rest", desiredOutcome |-> "sleep", quickRating |-> 5],
       [id |-> 29, date |-> <<2026, 2, 1>>, productSku |-> "CRX-DR-5",
        productName |-> "Deep Rest", desiredOutcome |-> "sleep", quickRating |-> 4],
       [id |-> 28, date |-> <<2026, 1, 31>>, productSku |-> "CRX-CL-2.5",
        productName |-> "Calm Clarity", desiredOutcome |-> "calm", quickRating |-> 3],
       [id |-> 27, date |-> <<2026, 1, 30>>, productSku |-> "CRX-DR-2.5",
        productName |-> "Deep Rest Micro", desiredOutcome |-> "sleep", quickRating |-> 4],
       [id |-> 26, date |-> <<2026, 1, 29>>, productSku |-> "CRX-FC-2.5",
        productName |-> "Focus Crisp", desiredOutcome |-> "focus", quickRating |-> 4] >>

\* the dose history of the six-product variant of the seed data
variantHistory ==
    << [id |-> 40, date |-> <<2026, 2, 2>>, productSku |-> "CRX-DR-5",
        productName |-> "Deep Rest", desiredOutcome |-> "sleep", quickRating |-> 5],
       [id |-> 39, date |-> <<2026, 2, 1>>, productSku |-> "CRX-DR-5",
        productName |-> "Deep Rest", desiredOutcome |-> "sleep", quickRating |-> 4],
       [id |-> 38, date |-> <<2026, 1, 31>>, productSku |-> "CRX-RL-5",
        productName |-> "Gentle Relief", desiredOutcome |-> "relief", quickRating |-> 5],
       [id |-> 37, date |-> <<2026, 1, 30>>, productSku |-> "CRX-DR-2.5",
        productName |-> "Deep Rest Micro", desiredOutcome |-> "sleep", quickRating |-> 4],
       [id |-> 36, date |-> <<2026, 1, 29>>, productSku |-> "CRX-FC-2.5",
        productName |-> "Focus Crisp", desiredOutcome |-> "focus", quickRating |-> 4],
       [id |-> 35, date |-> <<2026, 1, 28>>, productSku |-> "CRX-CL-2.5",
        productName |-> "Calm Clarity", desiredOutcome |-> "calm", quickRating |-> 3],
       [id |-> 34, date |-> <<2026, 1, 27>>, productSku |-> "CRX-DR-10",
        productName |-> "Deep Rest Plus", desiredOutcome |-> "sleep", quickRating |-> 3],
       [id |-> 33, date |-> <<2026, 1, 26>>, productSku |-> "CRX-DR-5",
        productName |-> "Deep Rest", desiredOutcome |-> "sleep", quickRating |-> 4],
       [id |-> 32, date |-> <<2026, 1, 25>>, productSku |-> "CRX-CL-2.5",
        productName |-> "Calm Clarity", desiredOutcome |-> "calm", quickRating |-> 4],
       [id |-> 31, date |-> <<2026, 1, 24>>, productSku |-> "CRX-FC-2.5",
        productName |-> "Focus Crisp", desiredOutcome |-> "focus", quickRating |-> 4] >>

\* the two seed data sets of the repository
DataSets ==
    { [products |-> dummyProducts, dosingHistory |-> dummyHistory],
      [products |-> variantProducts, dosingHistory |-> variantHistory] }

----
(* the initial state of the pages *)

\* the routes of the application
Pages == {"/", "/onboarding", "/log-dose", "/history", "/assistant", "/settings"}

\* thumbs === null
NoThumbs == "null"

\* log-dose/page.tsx: the useState initial values of LogDosePage
LogDoseInit(catalog) ==
    [productSku |-> IF At(catalog, 0) = Undefined THEN "" ELSE At(catalog, 0).sku,
     rating |-> 4,
     thumbs |-> "up",
     selectedTags |-> <<"helped sleep">>,
     notes |-> "",
     submitted |-> FALSE]

\* the text of the first message of the chat
Greeting ==
    << "Hi, I'm the ClarityRx demo assistant. I can explain how capsules differ, how ",
       "terpenes relate to effects, and when to talk to your doctor - but I can't give ",
       "medical advice." >>

\* assistant/page.tsx: the useState initial values of AssistantPage
AssistantInit ==
    [input |-> <<>>,
     messages |-> << [id |-> 1, role |-> "assistant", text |-> Greeting] >>]

\* settings page: the useState initial values of SettingsPage
SettingsInit ==
    [step |-> 1, ageRange |-> "", experience |-> "",
     selectedUsageTimes |-> <<>>, selectedGoals |-> <<>>,
     selectedHealthFlags |-> <<>>, selectedLifestyle |-> <<>>,
     tolerance |-> "", formatPref |-> "", psychProfile |-> "", notes |-> ""]

\* Date.now() when a page is mounted. The readings of a running browser are
\* far above the identifier 1 of the greeting; only the differences between
\* readings matter, and the model counts the milliseconds from this value.
ClockStart == 10

\* the pages other than the onboarding page are in their initial state
OtherPagesInitial ==
    /\ productFilter = "all"
    /\ goalFilter = "all"
    /\ logDose = LogDoseInit(products)
    /\ assistant = AssistantInit
    /\ settings = SettingsInit
    /\ now = ClockStart

----
(* onboarding/page.tsx *)

\* the rule table of chooseStarterProduct with the SKUs and fallback indices
\* as parameters; only the variants below use it
chooseBy(args, youngest, low, std, calm, focus, relief, iStd, iCalm, iFocus, iRelief, last) ==
    IF args.primaryGoal = "sleep"
    THEN IF args.ageRange # youngest /\ args.experience = "naive"
         THEN Coalesce(Find(products, low), last)
         ELSE Coalesce(Coalesce(Find(products, std), At(products, iStd)), last)
    ELSE IF args.primaryGoal = "calm"
    THEN Coalesce(Coalesce(Find(products, calm), At(products, iCalm)), last)
    ELSE IF args.primaryGoal = "focus"
    THEN Coalesce(Coalesce(Find(products, focus), At(products, iFocus)), last)
    ELSE Coalesce(Coalesce(Find(products, relief), At(products, iRelief)), last)

\* variant: the final ?? products[0] is missing
chooseStarterProduct_noFirst(args) ==
    chooseBy(args, "50-60", "CRX-DR-2.5", "CRX-DR-5", "CRX-CL-2.5", "CRX-FC-2.5",
             "CRX-RL-5", 1, 2, 3, 1, Undefined)

\* variant: the calm and focus SKUs are exchanged
chooseStarterProduct_calmFocusSwapped(args) ==
    chooseBy(args, "50-60", "CRX-DR-2.5", "CRX-DR-5", "CRX-FC-2.5", "CRX-CL-2.5",
             "CRX-RL-5", 1, 2, 3, 1, At(products, 0))

\* variant: the low-dose rule looks for the standard capsule
chooseStarterProduct_lowIsStandard(args) ==
    chooseBy(args, "50-60", "CRX-DR-5", "CRX-DR-5", "CRX-CL-2.5", "CRX-FC-2.5",
             "CRX-RL-5", 1, 2, 3, 1, At(products, 0))

\* variant: the low-dose rule excludes the oldest bracket instead of the youngest
chooseStarterProduct_wrongBracket(args) ==
    chooseBy(args, "70-80", "CRX-DR-2.5", "CRX-DR-5", "CRX-CL-2.5", "CRX-FC-2.5",
             "CRX-RL-5", 1, 2, 3, 1, At(products, 0))

\* variant: the focus rule falls back to products[2]
chooseStarterProduct_focusFallback2(args) ==
    chooseBy(args, "50-60", "CRX-DR-2.5", "CRX-DR-5", "CRX-CL-2.5", "CRX-FC-2.5",
             "CRX-RL-5", 1, 2, 2, 1, At(products, 0))

\* variant: the relief rule falls back to products[2]
chooseStarterProduct_reliefFallback2(args) ==
    chooseBy(args, "50-60", "CRX-DR-2.5", "CRX-DR-5", "CRX-CL-2.5", "CRX-FC-2.5",
             "CRX-RL-5", 1, 2, 3, 2, At(products, 0))

\* variant: a heavy user asking for calm is given the focus capsule
chooseStarterProduct_calmByExperience(args) ==
    IF args.primaryGoal = "calm" /\ args.experience = "heavy"
    THEN chooseBy(args, "50-60", "CRX-DR-2.5", "CRX-DR-5", "CRX-FC-2.5", "CRX-FC-2.5",
                  "CRX-RL-5", 1, 2, 3, 1, At(products, 0))
    ELSE chooseBy(args, "50-60", "CRX-DR-2.5", "CRX-DR-5", "CRX-CL-2.5", "CRX-FC-2.5",
                  "CRX-RL-5", 1, 2, 3, 1, At(products, 0))

chooseStarterProduct(args) ==
    IF args.primaryGoal = "sleep"
    THEN IF args.ageRange # "50-60" /\ args.experience = "naive"
         THEN Coalesce(Find(products, "CRX-DR-2.5"), At(products, 0))
         ELSE Coalesce(Coalesce(Find(products, "CRX-DR-5"), At(products, 1)),
                       At(products, 0))
    ELSE IF args.primaryGoal = "calm"
    THEN Coalesce(Coalesce(Find(products, "CRX-CL-2.5"), At(products, 2)),
                  At(products, 0))
    ELSE IF args.primaryGoal = "focus"
    THEN Coalesce(Coalesce(Find(products, "CRX-FC-2.5"), At(products, 3)),
                  At(products, 0))
    ELSE Coalesce(Coalesce(Find(products, "CRX-RL-5"), At(products, 1)),
                  At(products, 0))

\* parts.join(" ")
RECURSIVE Join(_, _)
Join(parts, sep) ==
    IF parts = <<>> THEN <<>>
    ELSE IF Len(parts) = 1 THEN parts[1]
    ELSE parts[1] \o <<sep>> \o Join(Tail(parts), sep)

SummarySentence(a, g, x) ==
    << "You selected the ", a, " age range with a primary goal of ", g, ". ",
       "You described your cannabis experience as ", x, "." >>

SleepSentence ==
    << "We favor myrcene- and linalool-forward sleep capsules at lower THC doses, ",
       "especially for older or cannabis-naive adults." >>

CalmSentence ==
    << "For daytime calm we bias toward lower THC with brighter terpenes like limonene, ",
       "to avoid heavy sedation." >>

FocusSentence ==
    << "For focus we keep THC low and rely on limonene/pinene-forward blends that feel clearer." >>

DisclaimerSentence ==
    << "This mock recommendation is intentionally conservative and for demo only - real dosing ",
       "should always be personalized with your clinician." >>

\* product.intendedEffect, a property read of a value that may be undefined
\* (the read of a property of undefined throws; the model marks it "TypeError")
EffectOf(product) ==
    IF product = Undefined THEN "TypeError" ELSE product.intendedEffect

\* variant: the educational sentence follows the selected goal
buildExplanationParts_byGoal(args) ==
    << SummarySentence(args.ageRange, args.primaryGoal, args.experience) >>
    \o (IF args.primaryGoal = "sleep" THEN << SleepSentence >>
        ELSE IF args.primaryGoal = "calm" THEN << CalmSentence >>
        ELSE IF args.primaryGoal = "focus" THEN << FocusSentence >>
        ELSE <<>>)
    \o << DisclaimerSentence >>

buildExplanationParts(args) ==
    << SummarySentence(args.ageRange, args.primaryGoal, args.experience) >>
    \o (IF EffectOf(args.product) = "sleep" THEN << SleepSentence >>
        ELSE IF EffectOf(args.product) = "calm" THEN << CalmSentence >>
        ELSE IF EffectOf(args.product) = "focus" THEN << FocusSentence >>
        ELSE <<>>)
    \o << DisclaimerSentence >>

buildExplanation(args) == Join(buildExplanationParts(args), " ")

setAgeRange(r) ==
    /\ page = "/onboarding"
    /\ ageRange' = r
    /\ UNCHANGED <<products, primaryGoal, experience, result, statsVars, appVars>>

\* variant: choosing a goal clears the shown result
setPrimaryGoal_clearsResult(g) ==
    /\ page = "/onboarding"
    /\ primaryGoal' = g
    /\ result' = Null
    /\ UNCHANGED <<products, ageRange, experience, statsVars, appVars>>

setPrimaryGoal(g) ==
    /\ page = "/onboarding"
    /\ primaryGoal' = g
    /\ UNCHANGED <<products, ageRange, experience, result, statsVars, appVars>>

setExperience(lvl) ==
    /\ page = "/onboarding"
    /\ experience' = lvl
    /\ UNCHANGED <<products, ageRange, primaryGoal, result, statsVars, appVars>>

\* variant: handleSubmit without its early return
handleSubmit_noGuard ==
    /\ page = "/onboarding"
    /\ LET args == [ageRange |-> ageRange, primaryGoal |-> primaryGoal,
                    experience |-> experience]
           product == chooseStarterProduct(args)
           explanation ==
               buildExplanation([ageRange |-> ageRange, primaryGoal |-> primaryGoal,
                                 experience |-> experience, product |-> product])
       IN result' = IF product = Undefined THEN result
                    ELSE [product |-> product, explanation |-> explanation]
    /\ UNCHANGED <<products, ageRange, primaryGoal, experience, statsVars, appVars>>

\* the submit button is disabled while a field is empty, and handleSubmit
\* returns early in that case.
\* buildExplanation reads product.intendedEffect: with an undefined product it
\* throws and setResult is not reached.
handleSubmit ==
    /\ page = "/onboarding"
    /\ IF ageRange = "" \/ primaryGoal = "" \/ experience = ""
       THEN result' = result
       ELSE LET args == [ageRange |-> ageRange, primaryGoal |-> primaryGoal,
                         experience |-> experience]
                product == chooseStarterProduct(args)
                explanation ==
                    buildExplanation([ageRange |-> ageRange, primaryGoal |-> primaryGoal,
                                      experience |-> experience, product |-> product])
            IN result' = IF product = Undefined THEN result
                         ELSE [product |-> product, explanation |-> explanation]
    /\ UNCHANGED <<products, ageRange, primaryGoal, experience, statsVars, appVars>>

InitOnboarding ==
    /\ products \in Catalogs
    /\ ageRange = ""
    /\ primaryGoal = ""
    /\ experience = "naive"
    /\ result = Null
    /\ entries = <<>>
    /\ stats = Null
    /\ page = "/onboarding"
    /\ dosingHistory = dummyHistory
    /\ OtherPagesInitial

NextOnboarding ==
    \/ \E r \in Range(ageRanges) : setAgeRange(r)
    \/ \E g \in Range(goals) : setPrimaryGoal(g)
    \/ \E lvl \in Range(experienceLevels) : setExperience(lvl)
    \/ handleSubmit

SpecOnboarding == InitOnboarding /\ [][NextOnboarding]_vars

----
(* history/page.tsx *)

RECURSIVE GCD(_, _)
GCD(a, b) == IF b = 0 THEN a ELSE GCD(b, a % b)

\* the number n / d (d > 0, n >= 0), in lowest terms
Fraction(n, d) == [num |-> n \div GCD(n, d), den |-> d \div GCD(n, d)]

\* the number n
Number(n) == [num |-> n, den |-> 1]

\* a < b and a >= b on numbers
Less(a, b) == a.num * b.den < b.num * a.den

AtLeast(a, b) == ~Less(a, b)

\* days from 1970-01-01 to the calendar date y-m-d (proleptic Gregorian)
DaysFromCivil(y, m, d) ==
    LET yy == IF m <= 2 THEN y - 1 ELSE y
        era == yy \div 400
        yoe == yy - era * 400
        mp == IF m > 2 THEN m - 3 ELSE m + 9
        doy == (153 * mp + 2) \div 5 + d - 1
        doe == yoe * 365 + yoe \div 4 - yoe \div 100 + doy
    IN era * 146097 + doe - 719468

\* new Date(date + "T00:00:00").getDay(): the string is parsed as local
\* midnight and getDay reads the local weekday, 0 Sunday - 6 Saturday
getDay(date) == (DaysFromCivil(date[1], date[2], date[3]) + 4) % 7

RECURSIVE IndexOfName(_, _, _)
IndexOfName(map, name, i) ==
    IF i > Len(map) THEN 0
    ELSE IF map[i].name = name THEN i
    ELSE IndexOfName(map, name, i + 1)

\* ratingByProduct.get(name) ?? { sum: 0, count: 0 }
MapGet(map, name) ==
    IF IndexOfName(map, name, 1) = 0 THEN [name |-> name, sum |-> 0, count |-> 0]
    ELSE map[IndexOfName(map, name, 1)]

\* ratingByProduct.set(name, bucket): a Map keeps its keys in insertion
\* order, and setting a key it holds keeps the key's position
MapSet(map, bucket) ==
    IF IndexOfName(map, bucket.name, 1) = 0 THEN Append(map, bucket)
    ELSE [map EXCEPT ![IndexOfName(map, bucket.name, 1)] = bucket]

\* variant: only Saturday counts as weekend
LoopBody_saturdayOnly(acc, e) ==
    LET bucket == MapGet(acc.ratingByProduct, e.productName)
        weekday == getDay(e.date)
    IN [ratingByProduct |->
            MapSet(acc.ratingByProduct,
                   [name |-> e.productName, sum |-> bucket.sum + e.quickRating,
                    count |-> bucket.count + 1]),
        weekendRatings |->
            IF weekday = 6
            THEN Append(acc.weekendRatings, e.quickRating) ELSE acc.weekendRatings,
        weekdayRatings |->
            IF weekday = 6
            THEN acc.weekdayRatings ELSE Append(acc.weekdayRatings, e.quickRating)]

\* the body of  for (const e of entries)
LoopBody(acc, e) ==
    LET bucket == MapGet(acc.ratingByProduct, e.productName)
        weekday == getDay(e.date)
    IN [ratingByProduct |->
            MapSet(acc.ratingByProduct,
                   [name |-> e.productName, sum |-> bucket.sum + e.quickRating,
                    count |-> bucket.count + 1]),
        weekendRatings |->
            IF weekday = 0 \/ weekday = 6
            THEN Append(acc.weekendRatings, e.quickRating) ELSE acc.weekendRatings,
        weekdayRatings |->
            IF weekday = 0 \/ weekday = 6
            THEN acc.weekdayRatings ELSE Append(acc.weekdayRatings, e.quickRating)]

RECURSIVE LoopFrom(_, _, _)
LoopFrom(acc, es, i) ==
    IF i > Len(es) THEN acc ELSE LoopFrom(LoopBody(acc, es[i]), es, i + 1)

\* the three locals of buildStats after its loop
Loop(es) ==
    LoopFrom([ratingByProduct |-> <<>>, weekendRatings |-> <<>>,
              weekdayRatings |-> <<>>], es, 1)

\* Array.from(ratingByProduct.entries()).map(([name, {sum, count}]) => [name, sum / count])
AvgByProduct(map) ==
    [i \in 1..Len(map) |-> [name |-> map[i].name, avg |-> Fraction(map[i].sum, map[i].count)]]

\* variant: equal averages count as out of order
After_orEqual(a, b) == ~Less(b.avg, a.avg)

\* the comparator (a, b) => b[1] - a[1] is positive: a sorts after b
After(a, b) == Less(a.avg, b.avg)

\* x is placed behind every element it does not have to precede
RECURSIVE InsertSorted(_, _)
InsertSorted(sorted, x) ==
    IF sorted = <<>> THEN <<x>>
    ELSE IF After(Head(sorted), x) THEN <<x>> \o sorted
    ELSE <<Head(sorted)>> \o InsertSorted(Tail(sorted), x)

RECURSIVE SortFrom(_, _, _)
SortFrom(sorted, arr, i) ==
    IF i > Len(arr) THEN sorted ELSE SortFrom(InsertSorted(sorted, arr[i]), arr, i + 1)

\* avgByProduct.sort((a, b) => b[1] - a[1]); Array.prototype.sort is stable
Sort(arr) == SortFrom(<<>>, arr, 1)

RECURSIVE Sum(_)
Sum(s) == IF s = <<>> THEN 0 ELSE Head(s) + Sum(Tail(s))

\* the threshold of  avg >= 4
FavoriteThreshold == 4

\* variant: avg > 4
RECURSIVE FavoriteNames_strict(_)
FavoriteNames_strict(arr) ==
    IF arr = <<>> THEN <<>>
    ELSE (IF Less(Number(FavoriteThreshold), Head(arr).avg)
          THEN <<Head(arr).name>> ELSE <<>>) \o FavoriteNames_strict(Tail(arr))

\* .filter(([_, avg]) => avg >= 4).map(([name]) => name)
RECURSIVE FavoriteNames(_)
FavoriteNames(arr) ==
    IF arr = <<>> THEN <<>>
    ELSE (IF AtLeast(Head(arr).avg, Number(FavoriteThreshold))
          THEN <<Head(arr).name>> ELSE <<>>) \o FavoriteNames(Tail(arr))

\* variant: the quotient is rounded down to an integer
Average_floor(ratings) ==
    IF Len(ratings) > 0 THEN Number(Sum(ratings) \div Len(ratings)) ELSE Number(0)

\* ratings.length > 0 ? ratings.reduce((a, b) => a + b, 0) / ratings.length : 0
Average(ratings) ==
    IF Len(ratings) > 0 THEN Fraction(Sum(ratings), Len(ratings)) ELSE Number(0)

\* the value of 0 / 0
NaN == [num |-> 0, den |-> 0]

\* variant: no early return and no length guard on the averages
buildStats_noGuard(es) ==
    [totalDoses |-> Len(es),
     favoriteProducts |-> FavoriteNames(Sort(AvgByProduct(Loop(es).ratingByProduct))),
     weekendAvg |-> IF Len(Loop(es).weekendRatings) > 0
                    THEN Average(Loop(es).weekendRatings) ELSE NaN,
     weekdayAvg |-> IF Len(Loop(es).weekdayRatings) > 0
                    THEN Average(Loop(es).weekdayRatings) ELSE NaN]

buildStats(es) ==
    IF Len(es) = 0
    THEN [totalDoses |-> 0, favoriteProducts |-> <<>>,
          weekendAvg |-> Number(0), weekdayAvg |-> Number(0)]
    ELSE [totalDoses |-> Len(es),
          favoriteProducts |-> FavoriteNames(Sort(AvgByProduct(Loop(es).ratingByProduct))),
          weekendAvg |-> Average(Loop(es).weekendRatings),
          weekdayAvg |-> Average(Loop(es).weekdayRatings)]

\* the longest entry list considered
MaxEntries == 4

\* the product names the entry lists are drawn from
NamePool == {"Deep Rest", "Calm Clarity"}

\* 2026-01-27 is a Tuesday; a Tuesday entry has any of these ratings
WeekdayPool == {<<2026, 1, 27>>}

RatingPool == {3, 4, 5}

\* 2026-01-31 is a Saturday; a Saturday entry has this rating
SaturdayPool == {<<2026, 1, 31>>}

SaturdayRatingPool == {5}

\* 2026-02-01 is a Sunday; a Sunday entry has this rating
SundayPool == {<<2026, 2, 1>>}

SundayRatingPool == {4}

PoolEntry(p, r, d) ==
    [date |-> d, productSku |-> p.sku, productName |-> p.name,
     desiredOutcome |-> p.intendedEffect, quickRating |-> r]

\* the entries the lists are drawn from; the SKU and the desired outcome are
\* those the six-product catalog gives the product name
EntryPool ==
    LET ps == {q \in Range(variantProducts) : q.name \in NamePool}
    IN {PoolEntry(p, r, d) : p \in ps, r \in RatingPool, d \in WeekdayPool}
       \cup {PoolEntry(p, r, d) : p \in ps, r \in SaturdayRatingPool, d \in SaturdayPool}
       \cup {PoolEntry(p, r, d) : p \in ps, r \in SundayRatingPool, d \in SundayPool}

\* as in the seed history, the identifiers count down along the list
WithIds(f) ==
    [i \in 1..Len(f) |->
        [id |-> Len(f) + 1 - i, date |-> f[i].date, productSku |-> f[i].productSku,
         productName |-> f[i].productName, desiredOutcome |-> f[i].desiredOutcome,
         quickRating |-> f[i].quickRating]]

\* buildStats is called on the entry list
CallBuildStats ==
    /\ stats = Null
    /\ stats' = buildStats(entries)
    /\ UNCHANGED <<products, onboardingVars, entries, appVars>>

InitStats ==
    /\ products = dummyProducts
    /\ ageRange = ""
    /\ primaryGoal = ""
    /\ experience = "naive"
    /\ result = Null
    /\ \E n \in 0..MaxEntries : \E f \in [1..n -> EntryPool] : entries = WithIds(f)
    /\ stats = Null
    /\ page = "/history"
    /\ dosingHistory = dummyHistory
    /\ OtherPagesInitial

NextStats == CallBuildStats

SpecStats == InitStats /\ [][NextStats]_vars

----
(* history/page.tsx: the page *)

\* variant: the goal filter is not applied
KeepEntry_ignoresGoal(entry, pf, gf) ==
    IF pf # "all" /\ entry.productSku # pf THEN FALSE ELSE TRUE

\* the callback of dosingHistory.filter
KeepEntry(entry, pf, gf) ==
    IF pf # "all" /\ entry.productSku # pf THEN FALSE
    ELSE IF gf # "all" /\ entry.desiredOutcome # gf THEN FALSE
    ELSE TRUE

\* the useMemo value filtered
RECURSIVE Filtered(_, _, _)
Filtered(hist, pf, gf) ==
    IF hist = <<>> THEN <<>>
    ELSE (IF KeepEntry(Head(hist), pf, gf) THEN <<Head(hist)>> ELSE <<>>)
         \o Filtered(Tail(hist), pf, gf)

\* str.repeat(n): a negative count throws a RangeError
Repeat(str, n) == IF n < 0 THEN <<"RangeError">> ELSE [i \in 1..n |-> str]

\* variant: four stars in all
Stars_fourStars(entry) ==
    Repeat("filled", entry.quickRating) \o Repeat("empty", 4 - entry.quickRating)

\* the stars of DoseCard
Stars(entry) ==
    Repeat("filled", entry.quickRating) \o Repeat("empty", 5 - entry.quickRating)

\* the values of the product select: "all" and the SKU of every product
ProductOptions == {"all"} \cup {products[i].sku : i \in 1..Len(products)}

\* the values of the goal select
GoalOptions == {"all", "sleep", "calm", "relief", "focus"}

everythingButHistoryPage ==
    <<products, dosingHistory, onboardingVars, page, logDose, assistant, settings, now>>

\* variant: stats is not recomputed when the product filter changes
setProductFilter_staleStats(v) ==
    /\ page = "/history"
    /\ productFilter' = v
    /\ entries' = Filtered(dosingHistory, v, goalFilter)
    /\ UNCHANGED <<stats, goalFilter, everythingButHistoryPage>>

\* onChange of the product select; the two useMemo values are recomputed
setProductFilter(v) ==
    /\ page = "/history"
    /\ productFilter' = v
    /\ entries' = Filtered(dosingHistory, v, goalFilter)
    /\ stats' = buildStats(Filtered(dosingHistory, v, goalFilter))
    /\ UNCHANGED <<goalFilter, everythingButHistoryPage>>

\* onChange of the goal select; the two useMemo values are recomputed
setGoalFilter(v) ==
    /\ page = "/history"
    /\ goalFilter' = v
    /\ entries' = Filtered(dosingHistory, productFilter, v)
    /\ stats' = buildStats(Filtered(dosingHistory, productFilter, v))
    /\ UNCHANGED <<productFilter, everythingButHistoryPage>>

----
(* log-dose/page.tsx *)

QUICK_TAGS ==
    << "helped sleep", "felt groggy", "perfect dose", "too mild", "no effect",
       "great for reading" >>

\* the quick tags the model clicks
TagPool == {"helped sleep", "felt groggy"}

\* the texts the model types into a notes field
NotesPool == {"", "slept well"}

RECURSIVE Without(_, _)
\* list.filter((x) => x !== value)
Without(list, value) ==
    IF list = <<>> THEN <<>>
    ELSE (IF Head(list) # value THEN <<Head(list)>> ELSE <<>>) \o Without(Tail(list), value)

\* list.includes(value) ? list.filter((x) => x !== value) : [...list, value]
Toggle(list, value) ==
    IF value \in Range(list) THEN Without(list, value) ELSE Append(list, value)

everythingButLogDose ==
    <<products, dosingHistory, onboardingVars, statsVars, page, productFilter,
      goalFilter, assistant, settings, now>>

\* onChange of the product select
setProductSku(v) ==
    /\ page = "/log-dose"
    /\ logDose' = [logDose EXCEPT !.productSku = v]
    /\ UNCHANGED everythingButLogDose

\* variant: a star click leaves the thumbs choice alone
clickStar_keepsThumbs(star) ==
    /\ page = "/log-dose"
    /\ logDose' = [logDose EXCEPT !.rating = star]
    /\ UNCHANGED everythingButLogDose

\* onClick of a star
clickStar(star) ==
    /\ page = "/log-dose"
    /\ logDose' = [logDose EXCEPT
          !.rating = star,
          !.thumbs = IF star >= 4 THEN "up" ELSE IF star <= 2 THEN "down" ELSE NoThumbs]
    /\ UNCHANGED everythingButLogDose

\* onClick of a thumbs button
setThumbs(t) ==
    /\ page = "/log-dose"
    /\ logDose' = [logDose EXCEPT !.thumbs = t]
    /\ UNCHANGED everythingButLogDose

toggleTag(tag) ==
    /\ page = "/log-dose"
    /\ logDose' = [logDose EXCEPT !.selectedTags = Toggle(logDose.selectedTags, tag)]
    /\ UNCHANGED everythingButLogDose

\* onChange of the notes field
setNotes(v) ==
    /\ page = "/log-dose"
    /\ logDose' = [logDose EXCEPT !.notes = v]
    /\ UNCHANGED everythingButLogDose

\* variant: the submitted dose is put in front of the dose history
handleSubmitLogDose_saves ==
    /\ page = "/log-dose"
    /\ logDose' = [logDose EXCEPT !.submitted = TRUE]
    /\ dosingHistory' =
          << [id |-> dosingHistory[1].id + 1, date |-> <<2026, 2, 3>>,
              productSku |-> logDose.productSku,
              productName |-> Find(products, logDose.productSku).name,
              desiredOutcome |-> Find(products, logDose.productSku).intendedEffect,
              quickRating |-> logDose.rating] >> \o dosingHistory
    /\ UNCHANGED <<products, onboardingVars, statsVars, page, productFilter,
                   goalFilter, assistant, settings, now>>

\* handleSubmit of LogDosePage
handleSubmitLogDose ==
    /\ page = "/log-dose"
    /\ logDose' = [logDose EXCEPT !.submitted = TRUE]
    /\ UNCHANGED everythingButLogDose

----
(* assistant/page.tsx *)

\* A text is the sequence of its fragments; a fragment is a run of white
\* space or a piece of text without leading or trailing white space in
\* which a keyword of buildReply occurs only as the whole fragment.
Whitespace == {" ", "  "}

RECURSIVE TrimStart(_)
TrimStart(text) ==
    IF text = <<>> THEN <<>>
    ELSE IF Head(text) \in Whitespace THEN TrimStart(Tail(text))
    ELSE text

RECURSIVE TrimEnd(_)
TrimEnd(text) ==
    IF text = <<>> THEN <<>>
    ELSE IF text[Len(text)] \in Whitespace THEN TrimEnd(SubSeq(text, 1, Len(text) - 1))
    ELSE text

\* input.trim()
Trim(text) == TrimEnd(TrimStart(text))

\* fragment.toLowerCase(), on the fragments of the input pool
LowerFragment(f) ==
    IF f = "Groggy" THEN "groggy"
    ELSE IF f = "Why am I" THEN "why am i"
    ELSE IF f = "Can I take this with" THEN "can i take this with"
    ELSE f

\* question.toLowerCase()
ToLowerCase(text) == [i \in 1..Len(text) |-> LowerFragment(text[i])]

\* q.includes(keyword)
Includes(q, keyword) == \E i \in 1..Len(q) : q[i] = keyword

GroggyReply ==
    << "Many people feel groggy when the THC dose or timing is a bit too strong for their body. ..." >>

MedsReply ==
    << "I can't safely check specific drug-drug interactions. ..." >>

TerpeneReply ==
    << "Myrcene is a terpene often linked to relaxation and sedation ..." >>

DoseReply ==
    << "Dosing is highly individual. ..." >>

DefaultReply ==
    << "That's a great question. In this demo I can only give general education, ..." >>

buildReply(question) ==
    LET q == ToLowerCase(question)
    IN IF Includes(q, "groggy") \/ Includes(q, "grogginess") THEN GroggyReply
       ELSE IF Includes(q, "blood pressure") \/ Includes(q, "meds")
               \/ Includes(q, "medication") THEN MedsReply
       ELSE IF Includes(q, "myrcene") \/ Includes(q, "limonene") THEN TerpeneReply
       ELSE IF Includes(q, "how much") \/ Includes(q, "dose") THEN DoseReply
       ELSE DefaultReply

\* the texts the model types into the chat input
InputPool ==
    { <<>>,
      <<" ">>,
      <<"  ", "Why am I", " ", "Groggy", "?", " ">>,
      <<"Can I take this with", " ", "blood pressure", " ", "meds", "?">>,
      <<"hello">> }

\* the most sends with a non-blank input in one visit of the chat
MaxSends == 2

\* the most milliseconds between two successive readings of Date.now()
MaxTick == 1

\* the readings of Date.now() stay within ClockStart .. ClockStart + ClockSpan
ClockSpan == 3

everythingButAssistant ==
    <<products, dosingHistory, onboardingVars, statsVars, page, productFilter,
      goalFilter, logDose, settings>>

\* onChange of the chat input
setInput(v) ==
    /\ page = "/assistant"
    /\ assistant' = [assistant EXCEPT !.input = v]
    /\ UNCHANGED <<everythingButAssistant, now>>

\* handleSend with Date.now() read as t1 for the user message and as t2 for
\* the reply
Send(t1, t2) ==
    LET trimmed == Trim(assistant.input)
        userMsg == [id |-> t1, role |-> "user", text |-> trimmed]
        botMsg == [id |-> t2 + 1, role |-> "assistant", text |-> buildReply(trimmed)]
    IN /\ assistant' = [input |-> <<>>,
                        messages |-> assistant.messages \o <<userMsg, botMsg>>]
       /\ now' = t2

\* variant: handleSend without its early return
handleSend_sendsBlank ==
    /\ page = "/assistant"
    /\ Len(assistant.messages) < 1 + 2 * MaxSends
    /\ \E t1 \in now..(now + MaxTick) :
          \E t2 \in t1..(t1 + MaxTick) :
             /\ t2 <= ClockStart + ClockSpan
             /\ Send(t1, t2)
    /\ UNCHANGED everythingButAssistant

handleSend ==
    /\ page = "/assistant"
    /\ IF Trim(assistant.input) = <<>>
       THEN UNCHANGED <<assistant, now>>
       ELSE /\ Len(assistant.messages) < 1 + 2 * MaxSends
            /\ \E t1 \in now..(now + MaxTick) :
                  \E t2 \in t1..(t1 + MaxTick) :
                     /\ t2 <= ClockStart + ClockSpan
                     /\ Send(t1, t2)
    /\ UNCHANGED everythingButAssistant

----
(* the settings page *)

settingsAgeRanges == <<"18-25", "26-35", "36-50", "51-65", "65+">>

usageTimes ==
    << "Morning (before the day)", "Afternoon (breaks)", "Evening (after work)",
       "Night (before bed)", "Only on weekends" >>

settingsGoals ==
    << "Sleep", "Anxiety & calm", "Pain & physical comfort", "Focus & deep work",
       "Social ease", "Creativity & hobbies", "Athletic recovery" >>

healthFlags ==
    << "Heart or blood pressure conditions", "History of anxiety / panic attacks",
       "History of depression / mood disorders", "Balance or fall risk",
       "Current prescription medications" >>

lifestyle ==
    << "Caffeine most days", "Alcohol most weeks", "Regular exercise (3+ times/week)",
       "Shift work / irregular sleep" >>

formatPreferences ==
    << "Capsules only", "Capsules + gummies", "Open to tinctures",
       "Prefer as few product types as possible" >>

toleranceLevels ==
    << "I feel things easily / very sensitive", "Average sensitivity",
       "I usually need more than most people" >>

psychProfiles ==
    << "Careful experimenter (slow, data-driven)",
       "Burned-out professional looking for better boundaries",
       "Retired and curious about aging well",
       "Creative who wants structure, not chaos" >>

\* the answers the model clicks, a few of each list
AgeRangePool == {settingsAgeRanges[4], settingsAgeRanges[5]}

ExperiencePool == {experienceLevels[1]}

UsagePool == {usageTimes[5]}

GoalPool == {settingsGoals[1], settingsGoals[2]}

HealthFlagPool == {healthFlags[4]}

LifestylePool == {lifestyle[1]}

TolerancePool == {toleranceLevels[1]}

FormatPool == {formatPreferences[1]}

PsychProfilePool == {psychProfiles[3]}

isStep1Valid == settings.ageRange # "" /\ settings.experience # ""

isStep2Valid == Len(settings.selectedGoals) > 0

isStep3Valid == TRUE

isStep4Valid == settings.tolerance # "" /\ settings.formatPref # ""

Min(a, b) == IF a < b THEN a ELSE b

Max(a, b) == IF a > b THEN a ELSE b

everythingButSettings ==
    <<products, dosingHistory, onboardingVars, statsVars, page, productFilter,
      goalFilter, logDose, assistant, now>>

\* Step1 is rendered while step = 1
settingsSetAgeRange(r) ==
    /\ page = "/settings" /\ settings.step = 1
    /\ settings' = [settings EXCEPT !.ageRange = r]
    /\ UNCHANGED everythingButSettings

settingsSetExperience(lvl) ==
    /\ page = "/settings" /\ settings.step = 1
    /\ settings' = [settings EXCEPT !.experience = lvl]
    /\ UNCHANGED everythingButSettings

\* Step2 is rendered while step = 2
toggleUsage(v) ==
    /\ page = "/settings" /\ settings.step = 2
    /\ settings' = [settings EXCEPT
          !.selectedUsageTimes = Toggle(settings.selectedUsageTimes, v)]
    /\ UNCHANGED everythingButSettings

toggleGoal(v) ==
    /\ page = "/settings" /\ settings.step = 2
    /\ settings' = [settings EXCEPT !.selectedGoals = Toggle(settings.selectedGoals, v)]
    /\ UNCHANGED everythingButSettings

\* Step3 is rendered while step = 3
toggleHealthFlag(v) ==
    /\ page = "/settings" /\ settings.step = 3
    /\ settings' = [settings EXCEPT
          !.selectedHealthFlags = Toggle(settings.selectedHealthFlags, v)]
    /\ UNCHANGED everythingButSettings

toggleLifestyle(v) ==
    /\ page = "/settings" /\ settings.step = 3
    /\ settings' = [settings EXCEPT
          !.selectedLifestyle = Toggle(settings.selectedLifestyle, v)]
    /\ UNCHANGED everythingButSettings

\* Step4 is rendered while step = 4
setTolerance(t) ==
    /\ page = "/settings" /\ settings.step = 4
    /\ settings' = [settings EXCEPT !.tolerance = t]
    /\ UNCHANGED everythingButSettings

setFormatPref(f) ==
    /\ page = "/settings" /\ settings.step = 4
    /\ settings' = [settings EXCEPT !.formatPref = f]
    /\ UNCHANGED everythingButSettings

setPsychProfile(pp) ==
    /\ page = "/settings" /\ settings.step = 4
    /\ settings' = [settings EXCEPT !.psychProfile = pp]
    /\ UNCHANGED everythingButSettings

settingsSetNotes(v) ==
    /\ page = "/settings" /\ settings.step = 4
    /\ settings' = [settings EXCEPT !.notes = v]
    /\ UNCHANGED everythingButSettings

\* variant: the step is raised without the Math.min
handleNext_noClamp ==
    /\ page = "/settings"
    /\ IF \/ settings.step = 1 /\ ~isStep1Valid
          \/ settings.step = 2 /\ ~isStep2Valid
          \/ settings.step = 3 /\ ~isStep3Valid
          \/ settings.step = 4 /\ ~isStep4Valid
       THEN settings' = settings
       ELSE settings' = [settings EXCEPT !.step = settings.step + 1]
    /\ UNCHANGED everythingButSettings

\* variant: handleNext without its early returns
handleNext_noChecks ==
    /\ page = "/settings"
    /\ settings' = [settings EXCEPT !.step = Min(settings.step + 1, 4)]
    /\ UNCHANGED everythingButSettings

handleNext ==
    /\ page = "/settings"
    /\ IF \/ settings.step = 1 /\ ~isStep1Valid
          \/ settings.step = 2 /\ ~isStep2Valid
          \/ settings.step = 3 /\ ~isStep3Valid
          \/ settings.step = 4 /\ ~isStep4Valid
       THEN settings' = settings
       ELSE settings' = [settings EXCEPT !.step = Min(settings.step + 1, 4)]
    /\ UNCHANGED everythingButSettings

handleBack ==
    /\ page = "/settings"
    /\ settings' = [settings EXCEPT !.step = Max(settings.step - 1, 1)]
    /\ UNCHANGED everythingButSettings

----
(* the application: one mounted page and the navigation between pages *)

\* a link of the header or of the home page is followed, or a route is
\* opened: the target page is mounted with its initial state; the history
\* page computes filtered and stats when it renders
Navigate(p) ==
    /\ page' = p
    /\ ageRange' = ""
    /\ primaryGoal' = ""
    /\ experience' = "naive"
    /\ result' = Null
    /\ productFilter' = "all"
    /\ goalFilter' = "all"
    /\ entries' = IF p = "/history" THEN Filtered(dosingHistory, "all", "all") ELSE <<>>
    /\ stats' = IF p = "/history"
                THEN buildStats(Filtered(dosingHistory, "all", "all")) ELSE Null
    /\ logDose' = LogDoseInit(products)
    /\ assistant' = AssistantInit
    /\ settings' = SettingsInit
    /\ now' = ClockStart
    /\ UNCHANGED <<products, dosingHistory>>

\* the home page is open, with either seed data set
InitApp ==
    /\ \E d \in DataSets : products = d.products /\ dosingHistory = d.dosingHistory
    /\ page = "/"
    /\ ageRange = ""
    /\ primaryGoal = ""
    /\ experience = "naive"
    /\ result = Null
    /\ entries = <<>>
    /\ stats = Null
    /\ OtherPagesInitial

NextApp ==
    \/ \E p \in Pages : Navigate(p)
    \/ \E r \in Range(ageRanges) : setAgeRange(r)
    \/ \E g \in Range(goals) : setPrimaryGoal(g)
    \/ \E lvl \in Range(experienceLevels) : setExperience(lvl)
    \/ handleSubmit
    \/ \E v \in ProductOptions : setProductFilter(v)
    \/ \E v \in GoalOptions : setGoalFilter(v)
    \/ \E v \in ProductOptions \ {"all"} : setProductSku(v)
    \/ \E star \in 1..5 : clickStar(star)
    \/ \E t \in {"up", "down"} : setThumbs(t)
    \/ \E tag \in TagPool : toggleTag(tag)
    \/ \E v \in NotesPool : setNotes(v)
    \/ handleSubmitLogDose
    \/ \E v \in InputPool : setInput(v)
    \/ handleSend
    \/ \E r \in AgeRangePool : settingsSetAgeRange(r)
    \/ \E lvl \in ExperiencePool : settingsSetExperience(lvl)
    \/ \E v \in UsagePool : toggleUsage(v)
    \/ \E v \in GoalPool : toggleGoal(v)
    \/ \E v \in HealthFlagPool : toggleHealthFlag(v)
    \/ \E v \in LifestylePool : toggleLifestyle(v)
    \/ \E t \in TolerancePool : setTolerance(t)
    \/ \E f \in FormatPool : setFormatPref(f)
    \/ \E pp \in PsychProfilePool : setPsychProfile(pp)
    \/ \E v \in NotesPool : settingsSetNotes(v)
    \/ handleNext
    \/ handleBack

SpecApp == InitApp /\ [][NextApp]_vars

----
(* Properties of chooseStarterProduct *)

\* every triple of the three enumerations
AllArgs ==
    [ageRange : Range(ageRanges), primaryGoal : Range(goals),
     experience : Range(experienceLevels)]

\* the selections a shown result was computed from, read back from the
\* summary sentence of its explanation
SubmittedArgs ==
    [ageRange |-> result.explanation[2], primaryGoal |-> result.explanation[4],
     experience |-> result.explanation[7]]

TargetSkus == {"CRX-DR-2.5", "CRX-DR-5", "CRX-CL-2.5", "CRX-FC-2.5", "CRX-RL-5"}

\* C1: chooseStarterProduct is total. For every triple of the enumerations and
\* every non-empty catalog, with or without the target SKUs, it returns a
\* defined product that is an element of the catalog; so does every result the
\* onboarding page shows.
C1_Total ==
    /\ \A args \in AllArgs :
          products # <<>> =>
             LET p == chooseStarterProduct(args)
             IN p # Undefined /\ p # Null /\ \E i \in 1..Len(products) : products[i] = p
    /\ result # Null =>
          /\ result.product = chooseStarterProduct(SubmittedArgs)
          /\ result.product \in Range(products)

\* a result is shown for a catalog that holds none of the target SKUs
C1_Witness ==
    /\ result # Null
    /\ \A sku \in TargetSkus : Find(products, sku) = Undefined
    /\ result.product = products[1]

\* C2: with the catalog of app/dummyData.ts, for every age range and experience
\* and every goal among sleep, calm and focus, the chosen product's
\* intendedEffect is the goal.
C2_EffectMatchesGoal ==
    products = dummyProducts =>
       /\ \A args \in AllArgs :
             args.primaryGoal \in {"sleep", "calm", "focus"} =>
                chooseStarterProduct(args).intendedEffect = args.primaryGoal
       /\ (result # Null /\ SubmittedArgs.primaryGoal \in {"sleep", "calm", "focus"}) =>
             result.product.intendedEffect = SubmittedArgs.primaryGoal

\* a calm result is shown for the catalog of app/dummyData.ts
C2_Witness ==
    /\ products = dummyProducts
    /\ result # Null
    /\ SubmittedArgs.primaryGoal = "calm"
    /\ result.product.sku = "CRX-CL-2.5"

\* C3: with the catalog of app/dummyData.ts, a result computed for the goal
\* relief shows a product whose intendedEffect is relief.
C3_ReliefLabeled ==
    (products = dummyProducts /\ result # Null /\ SubmittedArgs.primaryGoal = "relief") =>
       result.product.intendedEffect = "relief"

LowestThcSleep(p) ==
    /\ p.intendedEffect = "sleep"
    /\ \A q \in Range(products) :
          q.intendedEffect = "sleep" => p.thcMgPerCapsule <= q.thcMgPerCapsule

IsLowDoseRule(args) ==
    /\ args.primaryGoal = "sleep"
    /\ args.ageRange # "50-60"
    /\ args.experience = "naive"

\* C4: for the goal sleep, an age range other than "50-60" and experience
\* naive, the chosen product is CRX-DR-2.5 (in every catalog that holds it,
\* the two seed catalogs among them), and it is the sleep product of the
\* catalog with the lowest thcMgPerCapsule.
C4_LowDoseSleep ==
    Find(products, "CRX-DR-2.5") # Undefined =>
       /\ \A args \in AllArgs :
             IsLowDoseRule(args) =>
                /\ chooseStarterProduct(args).sku = "CRX-DR-2.5"
                /\ LowestThcSleep(chooseStarterProduct(args))
       /\ (result # Null /\ IsLowDoseRule(SubmittedArgs)) =>
             /\ result.product.sku = "CRX-DR-2.5"
             /\ LowestThcSleep(result.product)

\* the low-dose capsule is shown for a catalog with three sleep products
C4_Witness ==
    /\ products = variantProducts
    /\ result # Null
    /\ IsLowDoseRule(SubmittedArgs)
    /\ result.product.sku = "CRX-DR-2.5"

TargetSku(args) ==
    IF IsLowDoseRule(args) THEN "CRX-DR-2.5"
    ELSE IF args.primaryGoal = "sleep" THEN "CRX-DR-5"
    ELSE IF args.primaryGoal = "calm" THEN "CRX-CL-2.5"
    ELSE IF args.primaryGoal = "focus" THEN "CRX-FC-2.5"
    ELSE "CRX-RL-5"

\* the fallback index of each rule
FallbackIndex(args) ==
    IF IsLowDoseRule(args) THEN 0
    ELSE IF args.primaryGoal = "sleep" THEN 1
    ELSE IF args.primaryGoal = "calm" THEN 2
    ELSE IF args.primaryGoal = "focus" THEN 3
    ELSE 1

FallbackEntry(args) ==
    IF FallbackIndex(args) < Len(products)
    THEN products[FallbackIndex(args) + 1]
    ELSE products[1]

\* C6: when the target SKU of the rule that applies is absent from the
\* catalog, the chosen product is the catalog entry at the rule's fallback
\* index (0 low-dose sleep, 1 standard sleep, 2 calm, 3 focus, 1 relief) if
\* the catalog has an entry there, and catalog[0] otherwise.
C6_FallbackChain ==
    /\ \A args \in AllArgs :
          Find(products, TargetSku(args)) = Undefined =>
             chooseStarterProduct(args) = FallbackEntry(args)
    /\ (result # Null /\ Find(products, TargetSku(SubmittedArgs)) = Undefined) =>
          result.product = FallbackEntry(SubmittedArgs)

\* a focus result is shown that was taken from products[3], the focus SKU
\* being absent
C6_Witness ==
    /\ result # Null
    /\ SubmittedArgs.primaryGoal = "focus"
    /\ Find(products, "CRX-FC-2.5") = Undefined
    /\ Len(products) >= 4
    /\ result.product = products[4]
    /\ products[4] # products[1]

\* the fallback index is past the end of the catalog and catalog[0] is shown
C6_WitnessFirst ==
    /\ result # Null
    /\ SubmittedArgs.primaryGoal = "calm"
    /\ Find(products, "CRX-CL-2.5") = Undefined
    /\ Len(products) = 2
    /\ result.product = products[1]

----
(* Properties of buildStats *)

\* C7: buildStats of the empty list is exactly totalDoses 0, no favourite
\* product, weekendAvg 0 and weekdayAvg 0.
C7_EmptyStats ==
    (stats # Null /\ entries = <<>>) =>
       /\ stats.totalDoses = 0
       /\ stats.favoriteProducts = <<>>
       /\ stats.weekendAvg = Number(0)
       /\ stats.weekdayAvg = Number(0)
       /\ DOMAIN stats = {"totalDoses", "favoriteProducts", "weekendAvg", "weekdayAvg"}

\* buildStats has returned for the empty list
C7_Witness == entries = <<>> /\ stats # Null

\* the product names of an entry list
NamesOf(es) == {es[i].productName : i \in 1..Len(es)}

\* the ratings of the entries of one product, in list order
RECURSIVE RatingsOf(_, _)
RatingsOf(es, name) ==
    IF es = <<>> THEN <<>>
    ELSE (IF Head(es).productName = name THEN <<Head(es).quickRating>> ELSE <<>>)
         \o RatingsOf(Tail(es), name)

\* the mean rating of the product is at least 4
MeanAtLeast4(es, name) == Sum(RatingsOf(es, name)) >= 4 * Len(RatingsOf(es, name))

\* C8: buildStats groups the entries by productName, and favoriteProducts
\* holds exactly the names of the groups whose mean quickRating is >= 4 (a
\* mean of exactly 4 included, any mean below 4 excluded), each name once.
C8_FavoritesAreGroupsAtLeast4 ==
    stats # Null =>
       /\ Range(stats.favoriteProducts) =
             {name \in NamesOf(entries) : MeanAtLeast4(entries, name)}
       /\ \A i, j \in 1..Len(stats.favoriteProducts) :
             stats.favoriteProducts[i] = stats.favoriteProducts[j] => i = j

\* the example: ratings 5, 4, 5 for "Deep Rest" and 3 for "Calm Clarity"
C8_Witness ==
    /\ stats # Null
    /\ RatingsOf(entries, "Deep Rest") = <<5, 4, 5>>
    /\ RatingsOf(entries, "Calm Clarity") = <<3>>
    /\ stats.favoriteProducts = <<"Deep Rest">>

\* a mean of exactly 4 that is not a single rating of 4
C8_WitnessExactly4 ==
    /\ stats # Null
    /\ RatingsOf(entries, "Calm Clarity") = <<3, 5>>
    /\ "Calm Clarity" \in Range(stats.favoriteProducts)

\* the position of the first entry of the product in the list
FirstIndex(es, name) == CHOOSE i \in 1..Len(es) :
    /\ es[i].productName = name
    /\ \A k \in 1..(i - 1) : es[k].productName # name

\* mean(a) > mean(b), and mean(a) = mean(b), on the ratings of two products
MeanGreater(es, a, b) ==
    Sum(RatingsOf(es, a)) * Len(RatingsOf(es, b)) >
        Sum(RatingsOf(es, b)) * Len(RatingsOf(es, a))

MeanEqual(es, a, b) ==
    Sum(RatingsOf(es, a)) * Len(RatingsOf(es, b)) =
        Sum(RatingsOf(es, b)) * Len(RatingsOf(es, a))

\* C9: favoriteProducts is ordered by mean rating, highest first, and two
\* products with equal mean rating appear in the order in which their first
\* entries occur in the input list.
C9_FavoritesOrdered ==
    stats # Null =>
       \A i, j \in 1..Len(stats.favoriteProducts) :
          i < j =>
             LET a == stats.favoriteProducts[i]
                 b == stats.favoriteProducts[j]
             IN \/ MeanGreater(entries, a, b)
                \/ /\ MeanEqual(entries, a, b)
                   /\ FirstIndex(entries, a) < FirstIndex(entries, b)

\* two favourites with equal means, and a third entry between their first ones
C9_Witness ==
    /\ stats # Null
    /\ Len(stats.favoriteProducts) = 2
    /\ MeanEqual(entries, stats.favoriteProducts[1], stats.favoriteProducts[2])
    /\ Len(entries) >= 3
    /\ entries[1].productName = stats.favoriteProducts[1]
    /\ entries[Len(entries)].productName = stats.favoriteProducts[1]

\* the sort moved the product that occurs second in the list to the front
C9_WitnessReordered ==
    /\ stats # Null
    /\ Len(stats.favoriteProducts) = 2
    /\ entries[1].productName = stats.favoriteProducts[2]

\* the calendar: the Saturdays and Sundays among the dates of the pool
Saturdays == {<<2026, 1, 31>>}

Sundays == {<<2026, 2, 1>>}

\* the ratings of the entries whose date is in the set of days, in list order
RECURSIVE RatingsOn(_, _, _)
RatingsOn(es, days, inside) ==
    IF es = <<>> THEN <<>>
    ELSE (IF (Head(es).date \in days) = inside THEN <<Head(es).quickRating>> ELSE <<>>)
         \o RatingsOn(Tail(es), days, inside)

\* C10: buildStats puts every entry in exactly one of the two rating sets, the
\* weekend set when its date is a Saturday or a Sunday and the weekday set
\* otherwise; the sizes of the two sets add up to totalDoses, and totalDoses is
\* the length of the input list.
C10_WeekendPartition ==
    stats # Null =>
       /\ Loop(entries).weekendRatings = RatingsOn(entries, Saturdays \cup Sundays, TRUE)
       /\ Loop(entries).weekdayRatings = RatingsOn(entries, Saturdays \cup Sundays, FALSE)
       /\ Len(Loop(entries).weekendRatings) + Len(Loop(entries).weekdayRatings)
             = stats.totalDoses
       /\ stats.totalDoses = Len(entries)

\* a Saturday, a Sunday and a weekday entry in one list
C10_Witness ==
    /\ stats # Null
    /\ \E i, j, k \in 1..Len(entries) :
          /\ entries[i].date \in Saturdays
          /\ entries[j].date \in Sundays
          /\ entries[k].date \notin Saturdays \cup Sundays
    /\ Len(Loop(entries).weekendRatings) = 2
    /\ stats.totalDoses = Len(entries)

\* weekendRatings and weekdayRatings, read off the calendar
WeekendSet(es) == RatingsOn(es, Saturdays \cup Sundays, TRUE)

WeekdaySet(es) == RatingsOn(es, Saturdays \cup Sundays, FALSE)

\* the number avg is the arithmetic mean of the non-empty list of ratings
IsMeanOf(avg, ratings) ==
    /\ avg.den > 0
    /\ avg.num * Len(ratings) = Sum(ratings) * avg.den

\* each average is the mean of its non-empty set
AveragesAreMeans ==
    /\ WeekendSet(entries) # <<>> => IsMeanOf(stats.weekendAvg, WeekendSet(entries))
    /\ WeekdaySet(entries) # <<>> => IsMeanOf(stats.weekdayAvg, WeekdaySet(entries))

\* for a non-empty input one average is at least 1, and none exceeds 5
AveragesInRange ==
    /\ Len(entries) > 0 =>
          \/ AtLeast(stats.weekendAvg, Number(1))
          \/ AtLeast(stats.weekdayAvg, Number(1))
    /\ AtLeast(Number(5), stats.weekendAvg)
    /\ AtLeast(Number(5), stats.weekdayAvg)

\* C11 as stated: each average is the mean of its rating set and is 0 exactly
\* when the input is non-empty but the set is empty; for a non-empty input one
\* average is at least 1 and none exceeds 5.
C11_ZeroOnlyForNonEmptyInput ==
    stats # Null =>
       /\ AveragesAreMeans
       /\ stats.weekendAvg = Number(0) <=>
             (Len(entries) > 0 /\ WeekendSet(entries) = <<>>)
       /\ stats.weekdayAvg = Number(0) <=>
             (Len(entries) > 0 /\ WeekdaySet(entries) = <<>>)
       /\ AveragesInRange

\* C11, amended: each average is the mean of its rating set and is 0 exactly
\* when the set is empty, the empty input included (both sets are empty
\* then); for a non-empty input with ratings in 1..5 one average is at least 1
\* and none exceeds 5.
C11_Averages ==
    stats # Null =>
       /\ AveragesAreMeans
       /\ stats.weekendAvg = Number(0) <=> WeekendSet(entries) = <<>>
       /\ stats.weekdayAvg = Number(0) <=> WeekdaySet(entries) = <<>>
       /\ AveragesInRange

\* a non-empty input without weekend entry whose weekday mean is 7/2
C11_Witness ==
    /\ stats # Null
    /\ Len(entries) > 0
    /\ WeekendSet(entries) = <<>>
    /\ stats.weekendAvg = Number(0)
    /\ stats.weekdayAvg = [num |-> 7, den |-> 2]

----
(* Properties of the application *)

\* C13: no user action on any page changes the product catalog or the dose
\* history; submitting the log-dose form adds no entry, so the total the
\* history page shows stays the same.
C13_DataNeverChanges ==
    [][products' = products /\ dosingHistory' = dosingHistory
       /\ Len(dosingHistory') = Len(dosingHistory)]_vars

\* the log-dose form has been submitted and the history is the seed history
C13_Witness ==
    /\ page = "/log-dose"
    /\ logDose.submitted
    /\ logDose.rating = 2
    /\ dosingHistory = dummyHistory

\* C14: in each seed data set the catalog is non-empty with pairwise distinct
\* SKUs, every history entry's productSku is the sku of a catalog product, and
\* the entry's productName and desiredOutcome are that product's name and
\* intendedEffect.
C14_HistoryRefersToCatalog ==
    /\ products # <<>>
    /\ \A i, j \in 1..Len(products) : products[i].sku = products[j].sku => i = j
    /\ \A k \in 1..Len(dosingHistory) :
          \E i \in 1..Len(products) :
             /\ products[i].sku = dosingHistory[k].productSku
             /\ products[i].name = dosingHistory[k].productName
             /\ products[i].intendedEffect = dosingHistory[k].desiredOutcome

\* the history page lists the ten entries of the six-product data set
C14_Witness ==
    /\ page = "/history"
    /\ dosingHistory = variantHistory
    /\ entries = variantHistory

\* C15: in each seed data set every history entry has an integer quickRating
\* in 1..5 and the entry identifiers are pairwise distinct, so the stars of a
\* dose card are quickRating filled and 5 - quickRating empty ones, with no
\* negative repeat count.
C15_RatingsAndIds ==
    /\ \A k \in 1..Len(dosingHistory) :
          /\ dosingHistory[k].quickRating \in 1..5
          /\ "RangeError" \notin Range(Stars(dosingHistory[k]))
          /\ Len(Stars(dosingHistory[k])) = 5
          /\ \A n \in 1..5 :
                Stars(dosingHistory[k])[n] =
                   IF n <= dosingHistory[k].quickRating THEN "filled" ELSE "empty"
    /\ \A k, m \in 1..Len(dosingHistory) :
          dosingHistory[k].id = dosingHistory[m].id => k = m

\* a card with five filled stars and a card with three are listed
C15_Witness ==
    /\ page = "/history"
    /\ \E k, m \in 1..Len(entries) :
          /\ Stars(entries[k]) = <<"filled", "filled", "filled", "filled", "filled">>
          /\ Stars(entries[m]) = <<"filled", "filled", "filled", "empty", "empty">>

\* C16: the explanation is the summary sentence of the three selections, then
\* one educational sentence chosen by the intendedEffect of the returned
\* product (none for a relief product), then the disclaimer, which comes last;
\* the educational sentence follows the product's effect, not the selected goal.
C16_ExplanationStructure ==
    result # Null =>
       LET e == result.explanation
           n == Len(e)
           d == Len(DisclaimerSentence)
           effect == result.product.intendedEffect
           educational ==
               IF effect = "sleep" THEN SleepSentence
               ELSE IF effect = "calm" THEN CalmSentence
               ELSE IF effect = "focus" THEN FocusSentence
               ELSE <<>>
       IN /\ n >= 8 + 1 + d
          /\ SubSeq(e, 1, 8) = SummarySentence(e[2], e[4], e[7])
          /\ e[2] \in Range(ageRanges)
          /\ e[4] \in Range(goals)
          /\ e[7] \in Range(experienceLevels)
          /\ SubSeq(e, n - d + 1, n) = DisclaimerSentence
          /\ SubSeq(e, 9, n - d) =
                IF educational = <<>> THEN <<" ">>
                ELSE <<" ">> \o educational \o <<" ">>

\* relief was selected, the product is a sleep product, and the explanation
\* carries the sleep sentence
C16_Witness ==
    /\ result # Null
    /\ SubmittedArgs.primaryGoal = "relief"
    /\ result.product.intendedEffect = "sleep"
    /\ SubSeq(result.explanation, 10, 11) = SleepSentence

\* a relief product: no educational sentence between summary and disclaimer
C16_WitnessRelief ==
    /\ result # Null
    /\ result.product.intendedEffect = "relief"
    /\ Len(result.explanation) = 8 + 1 + Len(DisclaimerSentence)

\* C19 as stated: for the sleep goal, whenever the result is the standard
\* capsule CRX-DR-5, the experience is not "naive".
C19_StandardSleepNotNaive ==
    (/\ result # Null
     /\ SubmittedArgs.primaryGoal = "sleep"
     /\ result.product.sku = "CRX-DR-5")
    => SubmittedArgs.experience # "naive"

\* C20: for the relief goal the returned product has 5 mg of THC per capsule,
\* for every age range and experience level, in both seed catalogs.
C20_ReliefIsFiveMg ==
    /\ \A args \in AllArgs :
          args.primaryGoal = "relief" =>
             chooseStarterProduct(args).thcMgPerCapsule = 50
    /\ (result # Null /\ SubmittedArgs.primaryGoal = "relief")
          => result.product.thcMgPerCapsule = 50

\* relief in the four-product catalog: the fallback products[1], a 5 mg capsule
C20_Witness ==
    /\ result # Null
    /\ products = dummyProducts
    /\ SubmittedArgs.primaryGoal = "relief"
    /\ result.product = products[2]
    /\ result.product.thcMgPerCapsule = 50

\* relief in the six-product catalog: the relief capsule
C20_WitnessRelief ==
    /\ result # Null
    /\ products = variantProducts
    /\ SubmittedArgs.primaryGoal = "relief"
    /\ result.product.sku = "CRX-RL-5"

\* the entries of the seed history that pass both filters, in seed order
PassesFilters(e) ==
    /\ productFilter = "all" \/ e.productSku = productFilter
    /\ goalFilter = "all" \/ e.desiredOutcome = goalFilter

\* C18: on the history page the list shown is the order-preserving sub-list of
\* the seed history of the entries that pass both filters ("all" passes every
\* entry), the statistics are buildStats of that list, and stats.totalDoses is
\* the number after "Showing".
C18_HistoryView ==
    page = "/history" =>
       /\ entries = SelectSeq(dosingHistory, PassesFilters)
       /\ stats = buildStats(entries)
       /\ stats.totalDoses = Len(entries)

\* both filters set: three of the ten entries are shown
C18_Witness ==
    /\ page = "/history"
    /\ dosingHistory = variantHistory
    /\ productFilter = "CRX-DR-5"
    /\ goalFilter = "sleep"
    /\ Len(entries) = 3
    /\ stats.totalDoses = 3

\* filters no entry passes: the list is empty
C18_WitnessEmpty ==
    /\ page = "/history"
    /\ productFilter = "CRX-DR-5"
    /\ goalFilter = "calm"
    /\ entries = <<>>
    /\ stats.totalDoses = 0

----
(* Properties of the onboarding form *)

\* C17: chooseStarterProduct is called only with three non-empty fields. A
\* submit while a field is empty leaves result as it was, so result is null
\* until the first submit with all three fields chosen, and every result shown
\* was computed from a triple of the enumerations.
C17_SubmitNeedsAllFields ==
    /\ [](result # Null => SubmittedArgs \in AllArgs)
    /\ [][result' # result =>
             /\ ageRange # "" /\ primaryGoal # "" /\ experience # ""
             /\ result'.product =
                   chooseStarterProduct([ageRange |-> ageRange,
                                         primaryGoal |-> primaryGoal,
                                         experience |-> experience])]_vars

\* an age range is chosen, no goal yet: the form can be submitted, no result
C17_Witness ==
    /\ page = "/onboarding"
    /\ ageRange # ""
    /\ primaryGoal = ""
    /\ result = Null

\* the first result, after a submit with all three fields chosen
C17_WitnessResult ==
    /\ result # Null
    /\ SubmittedArgs = [ageRange |-> ageRange, primaryGoal |-> primaryGoal,
                        experience |-> experience]

\* a and b have the same goal and, for sleep, agree on whether the age range
\* is "50-60" and on whether the experience is "naive"
SameFacts(a, b) ==
    /\ a.primaryGoal = b.primaryGoal
    /\ a.primaryGoal = "sleep" =>
          /\ (a.ageRange = "50-60") <=> (b.ageRange = "50-60")
          /\ (a.experience = "naive") <=> (b.experience = "naive")

\* C21: the product does not depend on ageRange or experience for calm, focus
\* and relief, and for sleep depends on them only through whether the age range
\* is "50-60" and whether the experience is "naive": every triple that agrees
\* with the submitted one on the goal and on those two facts gets the product
\* that is shown.
C21_DependsOnlyOnFacts ==
    result # Null =>
       \A b \in AllArgs :
          SameFacts(SubmittedArgs, b) => chooseStarterProduct(b) = result.product

\* sleep for a naive user of the "70-80" bracket: the triple with "60-70"
\* agrees on both facts, the triple with "50-60" does not and gets another product
C21_Witness ==
    /\ result # Null
    /\ SubmittedArgs = [ageRange |-> "70-80", primaryGoal |-> "sleep",
                        experience |-> "naive"]
    /\ chooseStarterProduct([ageRange |-> "60-70", primaryGoal |-> "sleep",
                             experience |-> "naive"]) = result.product
    /\ chooseStarterProduct([ageRange |-> "50-60", primaryGoal |-> "sleep",
                             experience |-> "naive"]) # result.product

\* calm: the product shown is the one of every other age range and experience
C21_WitnessCalm ==
    /\ result # Null
    /\ SubmittedArgs.primaryGoal = "calm"
    /\ SubmittedArgs.experience = "heavy"
    /\ result.product.sku = "CRX-CL-2.5"

\* C22: the shown result changes only on a submit. Choosing another age range,
\* goal or experience leaves result as it is, so the result shown may belong to
\* earlier selections; and a result that is not null never becomes null again.
C22_ResultChangesOnlyOnSubmit ==
    [][/\ (ageRange' # ageRange \/ primaryGoal' # primaryGoal
              \/ experience' # experience) => result' = result
       /\ result' # result => handleSubmit
       /\ result # Null => result' # Null]_vars

\* a result is shown and the goal selected now is not the one it was computed for
C22_Witness ==
    /\ result # Null
    /\ primaryGoal # ""
    /\ SubmittedArgs.primaryGoal # primaryGoal
    /\ SubmittedArgs.ageRange # ageRange

----
(* Properties of the history, settings and log-dose pages *)

\* C23: on the history page with the seed data, while the product filter is a
\* SKU of the catalog (with any goal filter) favoriteProducts has at most one
\* element, which is the name of the product with that SKU; and every name in
\* favoriteProducts is the productName of a listed entry.
C23_FavoritesOfOneProduct ==
    page = "/history" =>
       /\ productFilter # "all" =>
             /\ Len(stats.favoriteProducts) <= 1
             /\ \A name \in Range(stats.favoriteProducts) :
                   name = Find(products, productFilter).name
       /\ \A name \in Range(stats.favoriteProducts) :
             \E k \in 1..Len(entries) : entries[k].productName = name

\* the doses of CRX-DR-5 are listed and "Deep Rest" is the one favorite
C23_Witness ==
    /\ page = "/history"
    /\ productFilter = "CRX-DR-5"
    /\ Len(entries) >= 2
    /\ stats.favoriteProducts = <<"Deep Rest">>

\* the doses of CRX-CL-2.5 of the four-product data set: mean 3, no favorite
C23_WitnessNone ==
    /\ page = "/history"
    /\ productFilter = "CRX-CL-2.5"
    /\ entries # <<>>
    /\ stats.favoriteProducts = <<>>

\* the answers of the survey: every field of settings but step
Answers(st) == [f \in (DOMAIN st) \ {"step"} |-> st[f]]

\* the current step is valid
CurrentStepValid ==
    \/ settings.step = 1 /\ settings.ageRange # "" /\ settings.experience # ""
    \/ settings.step = 2 /\ settings.selectedGoals # <<>>
    \/ settings.step = 3
    \/ settings.step = 4 /\ settings.tolerance # "" /\ settings.formatPref # ""

\* C24: in the settings survey step stays in 1..4. Next raises step by one
\* when step < 4 and the current step is valid, and leaves it as it is
\* otherwise; Back lowers step by one except at step 1; neither changes an
\* answer.
C24_StepNavigation ==
    /\ [](settings.step \in 1..4)
    /\ [][handleNext =>
             /\ settings'.step =
                   IF settings.step < 4 /\ CurrentStepValid
                   THEN settings.step + 1 ELSE settings.step
             /\ Answers(settings') = Answers(settings)]_vars
    /\ [][handleBack =>
             /\ settings'.step =
                   IF settings.step = 1 THEN 1 ELSE settings.step - 1
             /\ Answers(settings') = Answers(settings)]_vars

\* the last step with tolerance and format chosen: Next stays at step 4
C24_Witness ==
    /\ page = "/settings"
    /\ settings.step = 4
    /\ settings.tolerance # ""
    /\ settings.formatPref # ""

\* step 2 without a goal: Next does not move
C24_WitnessInvalid ==
    /\ page = "/settings"
    /\ settings.step = 2
    /\ settings.selectedGoals = <<>>

\* C25: in every reachable state of the settings survey, step >= 2 implies
\* that ageRange and experience are chosen, and step >= 3 implies that a goal
\* is selected.
C25_EarlierStepsValid ==
    /\ settings.step >= 2 => settings.ageRange # "" /\ settings.experience # ""
    /\ settings.step >= 3 => settings.selectedGoals # <<>>

\* the user went on to step 3, chose a health flag and came back to step 2,
\* where the goal was then deselected
C25_Witness ==
    /\ page = "/settings"
    /\ settings.step = 2
    /\ settings.selectedGoals = <<>>
    /\ settings.selectedHealthFlags # <<>>

\* the thumbs a star click sets
ThumbsOfStar(star) ==
    IF star >= 4 THEN "up" ELSE IF star <= 2 THEN "down" ELSE NoThumbs

\* C26: on the log-dose page rating stays in 1..5 and thumbs = none implies
\* rating = 3; a click on star s sets rating to s and thumbs to up for s >= 4,
\* down for s <= 2 and none for s = 3, whatever thumbs was; the rating changes
\* only together with such a reset of thumbs.
C26_RatingAndThumbs ==
    /\ [](/\ logDose.rating \in 1..5
          /\ logDose.thumbs = NoThumbs => logDose.rating = 3)
    /\ [][\A s \in 1..5 :
             clickStar(s) =>
                /\ logDose'.rating = s
                /\ logDose'.thumbs = ThumbsOfStar(s)]_vars
    /\ [][logDose'.rating # logDose.rating =>
             logDose'.thumbs = ThumbsOfStar(logDose'.rating)]_vars

\* thumbs up chosen after the third star: thumbs does not follow the rating
C26_Witness ==
    /\ page = "/log-dose"
    /\ logDose.rating = 3
    /\ logDose.thumbs = "up"

\* the third star was clicked: no thumbs
C26_WitnessNone ==
    /\ page = "/log-dose"
    /\ logDose.rating = 3
    /\ logDose.thumbs = NoThumbs

----
(* Properties of the assistant chat *)

\* the input is empty or white space only
Blank(text) == \A i \in 1..Len(text) : text[i] \in Whitespace

\* C27: in the assistant chat a send with an empty or white-space input
\* changes neither the messages nor the input; every other send appends two
\* messages, the trimmed text of the user and then the reply to it, and clears
\* the input. The list has an odd number of messages, starts with the
\* greeting, its roles alternate, each reply answers the message before it,
\* and editing the input removes or reorders no message.
C27_ChatGrowsByPairs ==
    /\ [](LET m == assistant.messages
          IN /\ Len(m) % 2 = 1
             /\ m[1].role = "assistant" /\ m[1].text = Greeting
             /\ \A i \in 1..Len(m) :
                   m[i].role = IF i % 2 = 1 THEN "assistant" ELSE "user"
             /\ \A i \in 1..Len(m) :
                   i % 2 = 0 =>
                      /\ ~Blank(m[i].text)
                      /\ m[i].text = Trim(m[i].text)
                      /\ m[i + 1].text = buildReply(m[i].text))
    /\ [][handleSend =>
             LET m == assistant.messages
                 n == Len(m)
             IN IF Blank(assistant.input)
                THEN assistant' = assistant
                ELSE /\ Len(assistant'.messages) = n + 2
                     /\ SubSeq(assistant'.messages, 1, n) = m
                     /\ assistant'.messages[n + 1].role = "user"
                     /\ assistant'.messages[n + 1].text = Trim(assistant.input)
                     /\ assistant'.messages[n + 2].role = "assistant"
                     /\ assistant'.messages[n + 2].text =
                           buildReply(Trim(assistant.input))
                     /\ assistant'.input = <<>>]_vars
    /\ [][(\E v \in InputPool : setInput(v)) =>
             assistant'.messages = assistant.messages]_vars

\* after two sends: five messages, and a white-space input that a send ignores
C27_Witness ==
    /\ page = "/assistant"
    /\ Len(assistant.messages) = 5
    /\ assistant.input = <<" ">>

\* the question was typed with white space around it and sent trimmed
C27_WitnessTrimmed ==
    /\ page = "/assistant"
    /\ Len(assistant.messages) >= 3
    /\ assistant.messages[2].text = <<"Why am I", " ", "Groggy", "?">>
    /\ assistant.messages[3].text = GroggyReply
    /\ assistant.input = <<>>

\* C28 as stated: the ids of the messages of the chat are pairwise distinct
\* after any sends, for any non-decreasing readings of the clock, two sends in
\* one millisecond or in consecutive milliseconds included.
C28_IdsDistinct ==
    \A i, j \in 1..Len(assistant.messages) :
       assistant.messages[i].id = assistant.messages[j].id => i = j

====
